---- MODULE Spec2Model ----
(***************************************************************************)
(* Model of the what-to-watch deck pipeline: the POST /api/deck route      *)
(* handler (src/src/app/api/deck/route.ts), the cached catalog fetch       *)
(* (src/src/lib/tmdb.ts, src/src/lib/cache.ts) and the swipe client        *)
(* (src/src/app/page.tsx).                                                 *)
(*                                                                         *)
(* Numbers.  A 32-bit word is a pair <<hi, lo>> of 16-bit halves, so that  *)
(* every intermediate value stays inside the 32-bit integers of TLC.       *)
(* Scores are fixed-point integers in thousandths; vote_average is kept in *)
(* tenths; log10 is tabulated in thousandths on the values the catalog of  *)
(* the model uses.                                                         *)
(***************************************************************************)
EXTENDS Integers, Sequences, FiniteSets, TLC

\* ------------------------------------------------------------------------
\* 32-bit arithmetic on <<hi, lo>> pairs
\* ------------------------------------------------------------------------
Half == 65536

RECURSIVE Pow2(_)
Pow2(n) == IF n = 0 THEN 1 ELSE 2 * Pow2(n - 1)

\* bitwise exclusive or of two n-bit naturals
RECURSIVE BitXor(_, _, _)
BitXor(a, b, n) ==
  IF n = 0 THEN 0
  ELSE ((a + b) % 2) + 2 * BitXor(a \div 2, b \div 2, n - 1)

\* bitwise or of two n-bit naturals
RECURSIVE BitOr(_, _, _)
BitOr(a, b, n) ==
  IF n = 0 THEN 0
  ELSE (IF a % 2 = 1 \/ b % 2 = 1 THEN 1 ELSE 0)
       + 2 * BitOr(a \div 2, b \div 2, n - 1)

\* a function on 1..n as the tuple of its values (TLC evaluates a
\* function constructor anew at each application)
Mat(f) == f \o <<>>

\* the exclusive or of two 4-bit naturals a, b, at position 16 * a + b + 1
XorNibble == Mat([p \in 1..256 |-> BitXor((p - 1) \div 16, (p - 1) % 16, 4)])

\* the exclusive or of two 16-bit naturals, nibble by nibble
Xor16(a, b) ==
  XorNibble[(a % 16) * 16 + (b % 16) + 1]
  + 16 * XorNibble[((a \div 16) % 16) * 16 + ((b \div 16) % 16) + 1]
  + 256 * XorNibble[((a \div 256) % 16) * 16 + ((b \div 256) % 16) + 1]
  + 4096 * XorNibble[(a \div 4096) * 16 + (b \div 4096) + 1]

\* x ^ y on 32-bit words
Xor32(x, y) == <<Xor16(x[1], y[1]), Xor16(x[2], y[2])>>

\* x | c for a small constant c < 2^6 (t | 1, t | 61)
OrLow32(x, c) == <<x[1], (x[2] \div 64) * 64 + BitOr(x[2] % 64, c, 6)>>

\* x >>> k for 0 < k < 16
Shr32(x, k) ==
  <<x[1] \div Pow2(k),
    (x[1] % Pow2(k)) * Pow2(16 - k) + x[2] \div Pow2(k)>>

\* (x + y) mod 2^32
Add32(x, y) ==
  LET lo == x[2] + y[2]
  IN  <<(x[1] + y[1] + lo \div Half) % Half, lo % Half>>

\* (a * b) mod 2^16 for 16-bit a, b
MulLow16(a, b) == ((a % 256) * b + (((a \div 256) * b) % 256) * 256) % Half

\* the full 32-bit product of 16-bit a, b as a word
Mul16(a, b) ==
  LET x == (a % 256) * b
      y == (a \div 256) * b
      s == x + 256 * (y % 256)
  IN  <<(s \div Half + y \div 256) % Half, s % Half>>

\* Math.imul(x, y): the low 32 bits of the product
Imul(x, y) ==
  LET p == Mul16(x[2], y[2])
  IN  <<(p[1] + MulLow16(x[1], y[2]) + MulLow16(x[2], y[1])) % Half, p[2]>>

\* ------------------------------------------------------------------------
\* Strings: character codes, number formatting
\* ------------------------------------------------------------------------
\* the printable ASCII characters from code 35 to code 91 and from code 97
\* to code 126 (the other characters occur in no string of the model)
AsciiLow  == "#$%&'()*+,-./0123456789:;<=>?@ABCDEFGHIJKLMNOPQRSTUVWXYZ["
AsciiHigh == "abcdefghijklmnopqrstuvwxyz{|}~"

\* charCodeAt for a one-character string
CharCode(c) ==
  IF c = " " THEN 32
  ELSE IF c = "!" THEN 33
  ELSE IF \E i \in 1..Len(AsciiLow) : SubSeq(AsciiLow, i, i) = c
       THEN 34 + (CHOOSE i \in 1..Len(AsciiLow) : SubSeq(AsciiLow, i, i) = c)
  ELSE 96 + (CHOOSE i \in 1..Len(AsciiHigh) : SubSeq(AsciiHigh, i, i) = c)

Digit(d) == SubSeq("0123456789", d + 1, d + 1)

\* String(n) for an integer n
RECURSIVE NatToString(_)
NatToString(n) ==
  IF n < 10 THEN Digit(n) ELSE NatToString(n \div 10) \o Digit(n % 10)

NumberToString(n) == IF n < 0 THEN "-" \o NatToString(0 - n) ELSE NatToString(n)

\* ------------------------------------------------------------------------
\* Seeded generator and shuffle
\* ------------------------------------------------------------------------
FnvOffset == <<33052, 40389>>   \* 2166136261 = 0x811C9DC5
FnvPrime  == <<256, 403>>       \* 16777619   = 0x01000193
Golden    == <<27947, 31221>>   \* 0x6d2b79f5

\* x is a 32-bit word
IsWord(x) == x[1] \in 0..(Half - 1) /\ x[2] \in 0..(Half - 1)

\* hashStringToSeed: h ^= charCode; h = imul(h, 16777619), over the string
\* from (1-based) position i on; h is a word at every step
RECURSIVE HashFrom(_, _, _)
HashFrom(h, str, i) ==
  IF i > Len(str) \/ ~IsWord(h) THEN h
  ELSE HashFrom(Imul(Xor32(h, <<0, CharCode(SubSeq(str, i, i))>>), FnvPrime),
                str, i + 1)

hashStringToSeed(str) == HashFrom(FnvOffset, str, 1)

\* mulberry32: the generator state after one call (seed += 0x6d2b79f5)
Mulberry32Step(seed) == Add32(seed, Golden)

\* t = imul(t ^ (t >>> 15), t | 1)
Temper15(t) == Imul(Xor32(t, Shr32(t, 15)), OrLow32(t, 1))

\* t ^= t + imul(t ^ (t >>> 7), t | 61)
Temper7(t) == Xor32(t, Add32(t, Imul(Xor32(t, Shr32(t, 7)), OrLow32(t, 61))))

\* (t ^ (t >>> 14)) >>> 0
Temper14(t) == Xor32(t, Shr32(t, 14))

\* mulberry32: the 32-bit numerator of the value one call returns, from the
\* state that call leaves behind
Mulberry32Out(seed) == Temper14(Temper7(Temper15(seed)))

\* Math.floor(rand() * n) for the numerator u of rand() and 1 <= n <= 2^15
FloorScale(u, n) == (u[1] * n + (u[2] * n) \div Half) \div Half

Max(a, b) == IF a >= b THEN a ELSE b

Swap(arr, i, j) == [arr EXCEPT ![i] = arr[j], ![j] = arr[i]]

\* one iteration of the loop of shuffleInPlace at (1-based) position i, with
\* the generator state s of its draw, on [arr, seed, draws]: the array, the
\* generator state, the draws made so far
Drawn(st, s, i) ==
  [arr |-> Swap(st.arr, i, FloorScale(Mulberry32Out(s), i) + 1),
   seed |-> s, draws |-> st.draws + 1]

\* the loop from position i down to stop + 1
RECURSIVE ShuffleDown(_, _, _)
ShuffleDown(st, i, stop) ==
  IF i <= stop THEN st
  ELSE ShuffleDown(Drawn(st, Mulberry32Step(st.seed), i), i - 1, stop)

\* the same loop from position i down to 2, evaluated in blocks of 8 positions
RECURSIVE ShuffleFrom(_, _)
ShuffleFrom(st, i) ==
  IF i < 2 \/ Len(st.arr) < i THEN st
  ELSE ShuffleFrom(ShuffleDown(st, i, Max(i - 8, 1)), Max(i - 8, 1))

shuffleInPlace(arr, seed) ==
  ShuffleFrom([arr |-> arr, seed |-> seed, draws |-> 0], Len(arr))

\* ------------------------------------------------------------------------
\* JavaScript values of the model
\* ------------------------------------------------------------------------
\* null, as the value of poster_path, of a string field and of a cookie
JsNull == "null"

\* m[f] ?? d for an optional field f of an object m
FieldOr(m, f, d) == IF f \in DOMAIN m THEN m[f] ELSE d

Truthy(str) == str # JsNull /\ str # ""

toLowerChar(c) ==
  CASE c = "A" -> "a" [] c = "B" -> "b" [] c = "C" -> "c" [] c = "D" -> "d"
    [] c = "E" -> "e" [] c = "F" -> "f" [] c = "G" -> "g" [] c = "H" -> "h"
    [] c = "I" -> "i" [] c = "J" -> "j" [] c = "K" -> "k" [] c = "L" -> "l"
    [] c = "M" -> "m" [] c = "N" -> "n" [] c = "O" -> "o" [] c = "P" -> "p"
    [] c = "Q" -> "q" [] c = "R" -> "r" [] c = "S" -> "s" [] c = "T" -> "t"
    [] c = "U" -> "u" [] c = "V" -> "v" [] c = "W" -> "w" [] c = "X" -> "x"
    [] c = "Y" -> "y" [] c = "Z" -> "z" [] OTHER -> c

\* a lower-casing that leaves the text as it is
toLowerCaseKept(str) == str

RECURSIVE toLowerCase(_)
toLowerCase(str) ==
  IF Len(str) = 0 THEN ""
  ELSE toLowerChar(SubSeq(str, 1, 1)) \o toLowerCase(SubSeq(str, 2, Len(str)))

\* String.prototype.includes
Includes(str, w) ==
  \E i \in 1..(Len(str) - Len(w) + 1) : SubSeq(str, i, i + Len(w) - 1) = w

\* String.prototype.trim (blanks are the only white space of the model)
RECURSIVE Trim(_)
Trim(str) ==
  IF Len(str) = 0 THEN str
  ELSE IF SubSeq(str, 1, 1) = " " THEN Trim(SubSeq(str, 2, Len(str)))
  ELSE IF SubSeq(str, Len(str), Len(str)) = " "
       THEN Trim(SubSeq(str, 1, Len(str) - 1))
  ELSE str

IsDigit(c) == \E d \in 0..9 : Digit(d) = c

DigitValue(c) == CHOOSE d \in 0..9 : Digit(d) = c

\* Number(s) for a string of at most four characters; -1 stands for NaN
RECURSIVE DigitsToNumber(_)
DigitsToNumber(str) ==
  IF Len(str) = 0 THEN 0
  ELSE IF \E i \in 1..Len(str) : ~IsDigit(SubSeq(str, i, i)) THEN -1
  ELSE DigitsToNumber(SubSeq(str, 1, Len(str) - 1)) * 10
       + DigitValue(SubSeq(str, Len(str), Len(str)))

\* yearFromDate: 0 for a missing or empty date and for a non-numeric year
yearFromDate(m) ==
  LET dateStr == FieldOr(m, "release_date", "")
      y == DigitsToNumber(SubSeq(dateStr, 1, IF Len(dateStr) < 4 THEN Len(dateStr) ELSE 4))
  IN  IF dateStr = "" THEN 0 ELSE IF y < 0 THEN 0 ELSE y

\* ------------------------------------------------------------------------
\* Request body: JSON values as records [k |-> kind, v |-> value]
\* ------------------------------------------------------------------------
JStr(str)  == [k |-> "string", v |-> str]
JNum(n)    == [k |-> "number", v |-> n]
JArr(seq)  == [k |-> "array", v |-> seq]
JObj(rec)  == [k |-> "object", v |-> rec]
JNullBody  == [k |-> "null"]
Unparseable == [k |-> "unparseable"]

\* typeof obj === "object" && obj !== null
IsObjectLike(obj) == obj.k \in {"object", "array"}

\* key in obj: an array of the model has no named keys
HasKey(obj, key) == obj.k = "object" /\ key \in DOMAIN obj.v

\* try { body = await request.json() } catch { body = {} }
ParseBody(raw) == IF raw.k = "unparseable" THEN JObj(<<>>) ELSE raw

getStringField(obj, key) ==
  IF ~IsObjectLike(obj) THEN JsNull
  ELSE IF ~HasKey(obj, key) THEN JsNull
  ELSE IF obj.v[key].k = "string" THEN obj.v[key].v ELSE JsNull

\* a number field that also takes a string of digits, as Number(value) would
getNumberFieldLoose(obj, key) ==
  IF ~IsObjectLike(obj) THEN JNullBody
  ELSE IF ~HasKey(obj, key) THEN JNullBody
  ELSE IF obj.v[key].k = "number" THEN obj.v[key]
  ELSE IF obj.v[key].k = "string" /\ DigitsToNumber(obj.v[key].v) >= 0
       THEN JNum(DigitsToNumber(obj.v[key].v))
  ELSE JNullBody

\* the result is a JSON number value, or JNullBody for null
getNumberField(obj, key) ==
  IF ~IsObjectLike(obj) THEN JNullBody
  ELSE IF ~HasKey(obj, key) THEN JNullBody
  ELSE IF obj.v[key].k = "number" THEN obj.v[key] ELSE JNullBody

IsJString(j) == j.k = "string"

StringOf(j) == j.v

RECURSIVE MapStrings(_)
MapStrings(seq) ==
  IF Len(seq) = 0 THEN <<>> ELSE <<StringOf(Head(seq))>> \o MapStrings(Tail(seq))

\* body.likes / body.passes: the string elements of the array, else []
getStringArray(body, key) ==
  IF IsObjectLike(body) /\ HasKey(body, key) /\ body.v[key].k = "array"
  THEN MapStrings(SelectSeq(body.v[key].v, IsJString))
  ELSE <<>>

\* ------------------------------------------------------------------------
\* Intent signature
\* ------------------------------------------------------------------------
GENRE == [animation |-> 16, comedy |-> 35, horror |-> 27, mystery |-> 9648]

Lexicon ==
  [anime      |-> {"anime", "shonen", "isekai", "slice of life"},
   comedy     |-> {"comedy", "funny", "humour", "humor", "laugh", "satire"},
   horror     |-> {"horror", "scary", "slasher", "haunting", "ghost", "demon"},
   mystery    |-> {"mystery", "detective", "whodunit", "investigation", "case"},
   trippy     |-> {"trippy", "psychedelic", "surreal", "mind-bending",
                   "mind bending", "weird", "acid"},
   underrated |-> {"underrated", "hidden gem", "hidden gems", "gem", "gems",
                   "under the radar"},
   badMovie   |-> {"bad movie", "so bad", "trash", "terrible", "awful",
                   "guilty pleasure"}]

hasAny(t, words) == \E w \in words : Includes(t, w)

makeSignature(q) ==
  LET t == toLowerCase(q)
  IN  [f \in DOMAIN Lexicon |-> hasAny(t, Lexicon[f])]

\* ------------------------------------------------------------------------
\* Preference model and scorer
\* ------------------------------------------------------------------------
SeqToSet(seq) == {seq[i] : i \in 1..Len(seq)}

GenresOf(m) == FieldOr(m, "genre_ids", <<>>)

\* Array.prototype.includes on genre_ids
HasGenre(m, g) == \E i \in 1..Len(GenresOf(m)) : GenresOf(m)[i] = g

\* the number of (movie, tag position) pairs of mergedMovies whose movie is in
\* idSet and whose tag is g: what the counting loop leaves in the map for g
CountGenre(mergedMovies, idSet, g) ==
  Cardinality(UNION {{<<i, j>> : j \in {k \in 1..Len(GenresOf(mergedMovies[i])) :
                                            GenresOf(mergedMovies[i])[k] = g}} :
                       i \in {k \in 1..Len(mergedMovies) :
                                NumberToString(mergedMovies[k].id) \in idSet}})

GenresIn(mergedMovies, idSet) ==
  UNION {SeqToSet(GenresOf(mergedMovies[i])) :
           i \in {k \in 1..Len(mergedMovies) :
                    NumberToString(mergedMovies[k].id) \in idSet}}

\* buildGenreWeights: the two maps, as functions on the genres they hold
buildGenreWeights(mergedMovies, likes, passes) ==
  LET likeSet == SeqToSet(likes)
      passSet == SeqToSet(passes)
  IN  [likeCounts |-> [g \in GenresIn(mergedMovies, likeSet) |->
                         CountGenre(mergedMovies, likeSet, g)],
       passCounts |-> [g \in GenresIn(mergedMovies, passSet) |->
                         CountGenre(mergedMovies, passSet, g)]]

\* map.get(g) ?? 0
GetOr0(map, g) == IF g \in DOMAIN map THEN map[g] ELSE 0

\* 1000 * log10(n), rounded, on the vote counts and popularities of the model
Log10Milli(n) ==
  CASE n = 1 -> 0 [] n = 11 -> 1041 [] n = 50 -> 1699 [] n = 51 -> 1708
    [] n = 61 -> 1785 [] n = 62 -> 1792 [] n = 200 -> 2301 [] n = 201 -> 2303
    [] n = 5001 -> 3699

\* a taste-shaping loop that weighs a like as much as a pass
RECURSIVE TasteSumFlat(_, _, _)
TasteSumFlat(genresArr, likeCounts, passCounts) ==
  IF Len(genresArr) = 0 THEN 0
  ELSE GetOr0(likeCounts, Head(genresArr)) * 1000
       - GetOr0(passCounts, Head(genresArr)) * 1000
       + TasteSumFlat(Tail(genresArr), likeCounts, passCounts)

\* the taste-shaping loop: one term per entry of genre_ids
RECURSIVE TasteSum(_, _, _)
TasteSum(genresArr, likeCounts, passCounts) ==
  IF Len(genresArr) = 0 THEN 0
  ELSE GetOr0(likeCounts, Head(genresArr)) * 2000
       - GetOr0(passCounts, Head(genresArr)) * 1000
       + TasteSum(Tail(genresArr), likeCounts, passCounts)

\* scoreMovie, in thousandths
scoreMovie(m, sig, likeCounts, passCounts) ==
  LET voteAvg    == FieldOr(m, "vote_average", 0)     \* tenths
      voteCount  == FieldOr(m, "vote_count", 0)
      popularity == FieldOr(m, "popularity", 0)
      text       == toLowerCase(FieldOr(m, "overview", ""))
  IN  voteAvg * 200
      + Log10Milli(voteCount + 1) * 3
      + (IF sig.comedy /\ HasGenre(m, GENRE.comedy) THEN 18000 ELSE 0)
      + (IF sig.horror /\ HasGenre(m, GENRE.horror) THEN 18000 ELSE 0)
      + (IF sig.mystery /\ HasGenre(m, GENRE.mystery) THEN 14000 ELSE 0)
      + (IF sig.anime /\ HasGenre(m, GENRE.animation) THEN 10000 ELSE 0)
      + (IF sig.underrated
         THEN Max(0, 30000 - Log10Milli(popularity + 1) * 10) ELSE 0)
      + (IF sig.badMovie
         THEN Log10Milli(popularity + 1) * 2 - voteAvg * 200 ELSE 0)
      + (IF sig.trippy /\ (\/ Includes(text, "surreal")
                           \/ Includes(text, "psychedelic")
                           \/ Includes(text, "strange"))
         THEN 6000 ELSE 0)
      + TasteSum(GenresOf(m), likeCounts, passCounts)

\* ------------------------------------------------------------------------
\* Candidate aggregation
\* ------------------------------------------------------------------------
RECURSIVE Concat(_)
Concat(seqs) == IF Len(seqs) = 0 THEN <<>> ELSE Head(seqs) \o Concat(Tail(seqs))

\* Array.from(byId.values()): one entry per id, at the position of the id's
\* first occurrence in merged, holding the id's last occurrence
byIdValues(merged) ==
  LET n     == Len(merged)
      first == {i \in 1..n : \A j \in 1..(i - 1) : merged[j].id # merged[i].id}
      last(i) == CHOOSE j \in i..n :
                   /\ merged[j].id = merged[i].id
                   /\ \A k \in (j + 1)..n : merged[k].id # merged[i].id
      keep  == SelectSeq([i \in 1..n |-> i], LAMBDA i : i \in first)
  IN  Mat([p \in 1..Len(keep) |-> merged[last(keep[p])]])

\* the vote floor of the underrated mode, whatever the signature
minVotesLow(sig) == 50

minVotes(sig) == IF sig.underrated THEN 50 ELSE 200

\* popularity <= maxPopularity, which is 60 when underrated and Infinity otherwise
WithinPopularity(m, sig) ==
  IF sig.underrated THEN FieldOr(m, "popularity", 0) <= 60 ELSE TRUE

\* the hygiene filters without the filter on seen ids
EligibleIgnoringSeen(m, sig, seenIds) ==
  /\ Truthy(m.poster_path)
  /\ FieldOr(m, "vote_count", 0) >= (IF sig.underrated THEN 50 ELSE 200)
  /\ (sig.underrated => FieldOr(m, "popularity", 0) <= 60)

\* the four hygiene filters of candidates
Eligible(m, sig, seenIds) ==
  /\ Truthy(m.poster_path)
  /\ FieldOr(m, "vote_count", 0) >= minVotes(sig)
  /\ WithinPopularity(m, sig)
  /\ NumberToString(m.id) \notin seenIds

candidatesOf(merged, sig, seenIds) ==
  SelectSeq(byIdValues(merged), LAMBDA m : Eligible(m, sig, seenIds))

BoolCount(b) == IF b THEN 1 ELSE 0

intentCount(sig) ==
  BoolCount(sig.anime) + BoolCount(sig.comedy) + BoolCount(sig.horror)
  + BoolCount(sig.mystery)

isSingleGenreIntent(sig) ==
  intentCount(sig) = 1 /\ ~sig.underrated /\ ~sig.badMovie

\* the genre filters applied under a single-genre intent
MatchesIntent(m, sig) ==
  /\ sig.comedy => HasGenre(m, GENRE.comedy)
  /\ sig.horror => HasGenre(m, GENRE.horror)
  /\ sig.mystery => HasGenre(m, GENRE.mystery)
  /\ sig.anime => HasGenre(m, GENRE.animation)

genreFiltered(candidates, sig) ==
  SelectSeq(candidates, LAMBDA m : MatchesIntent(m, sig))

\* no revert, whatever the size of the filtered pool
revertNever(filtered, candidates) == filtered

\* a revert that does not look at the size of the filtered pool
revertAlways(filtered, candidates) == candidates

\* if (filtered.length < 25) filtered = candidates
revertIfSmall(filtered, candidates) ==
  IF Len(filtered) < 25 THEN candidates ELSE filtered

filteredOf(candidates, sig) ==
  IF isSingleGenreIntent(sig)
  THEN revertIfSmall(genreFiltered(candidates, sig), candidates)
  ELSE candidates

\* ------------------------------------------------------------------------
\* Ranking and deck assembly
\* ------------------------------------------------------------------------
\* filtered.map(score).sort((a, b) => b.s - a.s): a stable descending sort
rankedOf(filtered, sig, likeCounts, passCounts) ==
  LET n   == Len(filtered)
      s   == Mat([i \in 1..n |->
                    scoreMovie(filtered[i], sig, likeCounts, passCounts)])
      pos == Mat([i \in 1..n |->
                    1 + Cardinality({j \in 1..n : s[j] > s[i]})
                      + Cardinality({j \in 1..(i - 1) : s[j] = s[i]})])
  IN  Mat([p \in 1..n |-> filtered[CHOOSE i \in 1..n : pos[i] = p]])

Min(a, b) == IF a <= b THEN a ELSE b

\* Array.prototype.slice(from, to) with 0-based from and exclusive to
Slice(arr, from, to) == SubSeq(arr, from + 1, Min(to, Len(arr)))

IdsOf(arr) == Mat([i \in 1..Len(arr) |-> arr[i].id])

\* a top-up loop that does not skip the ids already chosen
RECURSIVE TopUpNoSkip(_, _, _)
TopUpNoSkip(picked, ranked, i) ==
  IF i > Len(ranked) \/ Len(picked) >= 10 THEN picked
  ELSE TopUpNoSkip(Append(picked, ranked[i]), ranked, i + 1)

\* the top-up loop over ranked from (1-based) position i
RECURSIVE TopUp(_, _, _)
TopUp(picked, ranked, i) ==
  IF i > Len(ranked) \/ Len(picked) >= 10 THEN picked
  ELSE TopUp(IF ranked[i].id \in SeqToSet(IdsOf(picked))
             THEN picked ELSE Append(picked, ranked[i]),
             ranked, i + 1)

\* the cap alone, without the top-up
pickedOfNoTopUp(picked0, ranked) == Slice(picked0, 0, 10)

\* lines 397-409: the top-up when fewer than 10 were picked, and the cap
pickedOf(picked0, ranked) ==
  Slice(IF Len(picked0) < 10 THEN TopUp(picked0, ranked, 1) ELSE picked0, 0, 10)

reasonOf(sig) ==
  IF sig.underrated THEN "Underrated pick"
  ELSE IF sig.badMovie THEN "So-bad-it's-good energy"
  ELSE IF sig.trippy THEN "Trippy vibes match"
  ELSE IF sig.comedy THEN "Comedy match"
  ELSE IF sig.horror THEN "Horror match"
  ELSE IF sig.mystery THEN "Mystery match"
  ELSE "Curated pick"

cardOf(m, sig) ==
  [id |-> NumberToString(m.id), title |-> m.title, year |-> yearFromDate(m),
   kind |-> "movie", reason |-> reasonOf(sig), posterPath |-> m.poster_path]

seedString(sessionId, day, reroll) ==
  sessionId \o ":" \o day \o ":" \o NumberToString(reroll)

\* Lines 326-431 of the handler, from the four slice results in argument order
\* to the cards, as the record of the locals the properties below read.  Each
\* local is computed once and handed on to the lines after it.

\* lines 411-431: the cards of the picked movies
FromPicked(picked, picked0, ranked, top, mid, candidates, weights, sig, seed) ==
  [cards       |-> Mat([i \in 1..Len(picked) |-> cardOf(picked[i], sig)]),
   picked      |-> picked,
   ranked      |-> IdsOf(ranked),
   nCandidates |-> Len(candidates),
   nGenre      |-> Len(genreFiltered(candidates, sig)),
   nFiltered   |-> Len(ranked),
   nPicked0    |-> Len(picked0),
   seed        |-> seed,
   topDraws    |-> top.draws,
   midDraws    |-> mid.draws,
   likeCounts  |-> weights.likeCounts,
   passCounts  |-> weights.passCounts]

\* lines 397-409: top-up and cap
FromPicked0(picked0, ranked, top, mid, candidates, weights, sig, seed) ==
  FromPicked(pickedOf(picked0, ranked), picked0, ranked, top, mid, candidates,
             weights, sig, seed)

\* the first 4 of the top bucket and the first 6 of the mid bucket
FromMidSwapped(mid, top, ranked, candidates, weights, sig, seed) ==
  FromPicked0(Slice(top.arr, 0, 4) \o Slice(mid.arr, 0, 6), ranked, top, mid,
              candidates, weights, sig, seed)

\* line 394: the first 6 of the top bucket and the first 4 of the mid bucket
FromMid(mid, top, ranked, candidates, weights, sig, seed) ==
  FromPicked0(Slice(top.arr, 0, 6) \o Slice(mid.arr, 0, 4), ranked, top, mid,
              candidates, weights, sig, seed)

\* the mid bucket shuffled with a generator seeded anew
FromTopReseeded(top, ranked, candidates, weights, sig, seed) ==
  FromMid(shuffleInPlace(Slice(ranked, 60, 220), seed), top, ranked,
          candidates, weights, sig, seed)

\* lines 389, 392: the mid bucket, shuffled with the generator as the shuffle
\* of the top bucket left it
FromTop(top, ranked, candidates, weights, sig, seed) ==
  FromMid(shuffleInPlace(Slice(ranked, 60, 220), top.seed), top, ranked,
          candidates, weights, sig, seed)

\* lines 388, 391: the top bucket, shuffled with the fresh generator
FromRanked(ranked, candidates, weights, sig, seed) ==
  FromTop(shuffleInPlace(Slice(ranked, 0, 60), seed), ranked, candidates,
          weights, sig, seed)

\* lines 348-386: the single-genre filter and the ranking
FromCandidates(candidates, weights, sig, seed) ==
  FromRanked(rankedOf(filteredOf(candidates, sig), sig,
                      weights.likeCounts, weights.passCounts),
             candidates, weights, sig, seed)

\* lines 334-345: the genre weights and the candidates
FromMerged(merged, sig, likes, passes, seed) ==
  FromCandidates(candidatesOf(merged, sig, SeqToSet(likes) \cup SeqToSet(passes)),
                 buildGenreWeights(merged, likes, passes), sig, seed)

AssembleDeck(slices, sig, likes, passes, sessionId, day, reroll) ==
  FromMerged(Concat(slices), sig, likes, passes,
             hashStringToSeed(seedString(sessionId, day, reroll)))

\* ------------------------------------------------------------------------
\* The catalog of the model
\* ------------------------------------------------------------------------
PageSize == 20

\* The movie the catalog holds under id; revision 1 is the same movie as a
\* later snapshot of the catalog returns it (votes and poster may differ)
Movie(id, rev) ==
  LET base ==
        [id |-> id,
         title |-> "T" \o NatToString(id),
         poster_path |-> IF id % 34 = 0 \/ (rev = 1 /\ id % 8 = 0) THEN JsNull
                         ELSE IF id % 38 = 0 THEN "" ELSE "/p.jpg",
         release_date |-> IF id % 12 = 0 THEN "" ELSE
                          IF id % 2 = 0 THEN "1999-05-01" ELSE "2004-11-20",
         vote_average |-> 65 + (id % 3) * 10,
         popularity |-> IF id % 10 = 5 THEN 61 ELSE IF id % 5 = 1 THEN 60 ELSE 10,
         overview |-> IF id % 6 = 0 THEN "A Surreal trip"
                      ELSE IF id % 6 = 1 THEN "strange days" ELSE "plain"]
      votes == IF id % 32 = 7 \/ (rev = 1 /\ id % 3 = 0) THEN 199
               ELSE IF id % 46 = 0 THEN 49
               ELSE IF id % 27 = 4 THEN 50
               ELSE IF id % 2 = 1 THEN 200 ELSE 5000
      genres == IF id % 4 = 0 THEN <<35>>
                ELSE IF id % 4 = 1 THEN <<27, 9648>>
                ELSE IF id % 4 = 2 THEN <<16, 35>> ELSE <<27>>
  IN  IF id % 10 = 0 THEN base @@ [vote_count |-> votes]
      ELSE IF id % 58 = 0 THEN base @@ [genre_ids |-> genres]
      ELSE base @@ [vote_count |-> votes, genre_ids |-> genres]

MovieRange(from, len, rev) == Mat([i \in 1..len |-> Movie(from + i - 1, rev)])

\* a page of the catalog as the candidate source returns it: `len` movies
\* from id `from` on, in revision `rev`
PageOf(d) == MovieRange(d.from, d.len, d.rev)

Desc(from, len, rev) == [from |-> from, len |-> len, rev |-> rev]

Slots == 1..4

\* what the candidate source may answer to the query of slot s (era A page 1,
\* era A page 2, era B page 1, era B page 2): the full page, or a short page, a
\* page of a later revision that overlaps another slot, or no result at all
FullCatalog ==
  [s \in Slots |->
     CASE s = 1 -> {Desc(1, PageSize, 0), Desc(1, 0, 0)}
       [] s = 2 -> {Desc(PageSize + 1, PageSize, 0), Desc(1, 5, 1)}
       [] s = 3 -> {Desc(2 * PageSize + 1, PageSize, 0), Desc(2 * PageSize + 1, 7, 0)}
       [] s = 4 -> {Desc(3 * PageSize + 1, PageSize, 0), Desc(1, 0, 0)}]

\* ------------------------------------------------------------------------
\* State
\* ------------------------------------------------------------------------
VARIABLES
  clock,    \* the server's clock: [day, tick], day an index into Days
  catalog,  \* the pages the candidate source may answer with, per slot
  cache,    \* the cache store: key -> page
  rq,       \* per request: position and the parsed locals of POST
  ft,       \* per request and slot: the state of its fetchDiscoverCustom call
  deck,     \* per request: the locals of POST at its return
  ui        \* the page component: its state and the request it has sent

vars == <<clock, catalog, cache, rq, ft, deck, ui>>

Reqs == 1..2

\* new Date().toDateString() and getFullYear() for the days of the model
Days == <<[date |-> "Sat Oct 31 2026", year |-> 2026],
          [date |-> "Sun Nov 01 2026", year |-> 2026]>>

\* the clock readings within one day
MaxTick == 1

\* the values crypto.randomUUID() may return
FreshIds == {"f1", "f2"}

Idle == [pc |-> "idle"]
NoFetch == [st |-> "none"]
NoDeck == [none |-> TRUE]
NoRequest == [none |-> TRUE]

\* a day string that also tells the time of day, as toString() would
dayOfWithTime(now) == Days[now.day].date \o " " \o NatToString(now.tick)

\* new Date().toDateString()
dayOf(now) == Days[now.day].date

\* new Date().getFullYear()
yearOf(now) == Days[now.day].year

\* ------------------------------------------------------------------------
\* fetchDiscoverCustom
\* ------------------------------------------------------------------------
genreCsvOf(sig) ==
  IF sig.comedy THEN NumberToString(GENRE.comedy)
  ELSE IF sig.horror THEN NumberToString(GENRE.horror)
  ELSE IF sig.mystery THEN NumberToString(GENRE.mystery)
  ELSE IF sig.anime THEN NumberToString(GENRE.animation)
  ELSE ""

\* the parameters of the four calls, in the order of the Promise.all array
fetchParams(sig, year, s) ==
  [page |-> IF s \in {1, 3} THEN 1 ELSE 2,
   vote_count_gte |-> IF sig.underrated THEN 50 ELSE 200,
   with_genres |-> genreCsvOf(sig),
   primary_release_date_gte |->
     NumberToString(IF s <= 2 THEN year - 30 ELSE year - 20) \o "-01-01",
   primary_release_date_lte |->
     NumberToString(IF s <= 2 THEN year - 20 ELSE year - 10) \o "-12-31"]

cacheKey(p) ==
  "tmdb:discover:custom:sort=vote_average.desc"
    \o ":votesGte=" \o NumberToString(p.vote_count_gte)
    \o ":avgGte=6.5"
    \o ":genres=" \o (IF p.with_genres = "" THEN "na" ELSE p.with_genres)
    \o ":prdGte=" \o p.primary_release_date_gte
    \o ":prdLte=" \o p.primary_release_date_lte
    \o ":p" \o NumberToString(p.page) \o ":v1"

\* null, as the answer of the cache for a key it does not hold
NullPage == [null |-> TRUE]

\* getJson: the stored value, or null
getJson(store, key) == IF key \in DOMAIN store THEN store[key] ELSE NullPage

\* a write that adds the movies to the page the key already holds, as a list
\* push would, instead of overwriting it
setJsonAppending(store, key, value) ==
  IF key \in DOMAIN store
  THEN (key :> Desc(store[key].from, store[key].len + value.len, value.rev))
         @@ store
  ELSE (key :> value) @@ store

\* setJson: an overwrite of the key
setJson(store, key, value) == (key :> value) @@ store

\* ------------------------------------------------------------------------
\* POST /api/deck
\* ------------------------------------------------------------------------
\* a join that is fulfilled by its first fulfilled call, as Promise.any
AnyFulfilled(f) == \E s \in Slots : f[s].st = "done"

\* Promise.all is fulfilled when every call is, rejected as soon as one is
AllFulfilled(f) == \A s \in Slots : f[s].st = "done"
AnyRejected(f)  == \E s \in Slots : f[s].st = "failed"

\* Lines 222-285: session id, body parsing, signature, years
parseRequest(req, sessionId, year) ==
  LET body == ParseBody(req.body)
      qRaw == getStringField(body, "q")
      rb   == getNumberField(body, "reroll")
      q    == Trim(IF qRaw = JsNull THEN "" ELSE qRaw)
  IN  [pc |-> "fetching", cookie |-> req.cookie, body |-> req.body,
       sessionId |-> sessionId, q |-> q,
       reroll |-> IF rb.k = "number" THEN rb.v ELSE 0,
       sig |-> makeSignature(q),
       likes |-> getStringArray(body, "likes"),
       passes |-> getStringArray(body, "passes"),
       year |-> year]

\* Lines 326-446, run when Promise.all is fulfilled
respond(r, f, now) ==
  AssembleDeck(<<PageOf(f[1].res), PageOf(f[2].res),
                 PageOf(f[3].res), PageOf(f[4].res)>>,
               r.sig, r.likes, r.passes, r.sessionId,
               dayOf(now), r.reroll)
    @@ [day |-> dayOf(now), at |-> now,
        setCookie |-> IF Truthy(r.cookie) THEN JsNull ELSE r.sessionId]

\* the handler's continuation after a step of one of its fetches: it fails
\* with the first rejection and answers when the last call is fulfilled
Settle(r, f) ==
  IF rq[r].pc # "fetching"
  THEN UNCHANGED <<rq, deck>>
  ELSE IF AnyRejected(f)
  THEN /\ rq' = [rq EXCEPT ![r].pc = "failed"]
       /\ UNCHANGED deck
  ELSE IF AllFulfilled(f)
  THEN /\ rq' = [rq EXCEPT ![r].pc = "done"]
       /\ deck' = [deck EXCEPT ![r] = respond(rq[r], f, clock)]
  ELSE UNCHANGED <<rq, deck>>

\* the four calls of Promise.all, each at its cache read
started(sig, year) ==
  [s \in Slots |->
     [st |-> "start", key |-> cacheKey(fetchParams(sig, year, s)),
      res |-> Desc(1, 0, 0)]]

\* The handler takes up request req and runs to Promise.all
Handle(r, req) ==
  /\ rq[r].pc = "idle"
  /\ \E fresh \in FreshIds :
       LET p == parseRequest(req, IF Truthy(req.cookie) THEN req.cookie
                                  ELSE fresh, yearOf(clock))
       IN  /\ (Truthy(req.cookie) => fresh = CHOOSE x \in FreshIds : TRUE)
           /\ rq' = [rq EXCEPT ![r] = p]
           /\ ft' = [ft EXCEPT ![r] = started(p.sig, p.year)]
  /\ UNCHANGED <<clock, catalog, cache, deck>>

\* A request arrives, from whatever caller
Receive(r, req) == Handle(r, req) /\ UNCHANGED ui

\* getJson answers with a value: the call returns it
CacheHit(r, s) ==
  /\ ft[r][s].st = "start"
  /\ getJson(cache, ft[r][s].key) # NullPage
  /\ ft' = [ft EXCEPT ![r][s].st = "done",
                      ![r][s].res = getJson(cache, ft[r][s].key)]
  /\ Settle(r, [ft[r] EXCEPT ![s].st = "done",
                             ![s].res = getJson(cache, ft[r][s].key)])
  /\ UNCHANGED <<clock, catalog, cache, ui>>

\* getJson answers null: the call goes on to the catalog
CacheMiss(r, s) ==
  /\ ft[r][s].st = "start"
  /\ getJson(cache, ft[r][s].key) = NullPage
  /\ ft' = [ft EXCEPT ![r][s].st = "miss"]
  /\ UNCHANGED <<clock, catalog, cache, rq, deck, ui>>

\* the catalog answers with a page
HttpOk(r, s) ==
  /\ ft[r][s].st = "miss"
  /\ \E page \in catalog[s] :
       ft' = [ft EXCEPT ![r][s].st = "fetched", ![r][s].res = page]
  /\ UNCHANGED <<clock, catalog, cache, rq, deck, ui>>

\* the catalog does not answer, or not with a success status: the call throws
HttpFails(r, s) ==
  /\ ft[r][s].st = "miss"
  /\ ft' = [ft EXCEPT ![r][s].st = "failed"]
  /\ Settle(r, [ft[r] EXCEPT ![s].st = "failed"])
  /\ UNCHANGED <<clock, catalog, cache, ui>>

\* setJson stores the page and the call returns it
CacheSet(r, s) ==
  /\ ft[r][s].st = "fetched"
  /\ cache' = setJson(cache, ft[r][s].key, ft[r][s].res)
  /\ ft' = [ft EXCEPT ![r][s].st = "done"]
  /\ Settle(r, [ft[r] EXCEPT ![s].st = "done"])
  /\ UNCHANGED <<clock, catalog, ui>>

\* Time passes while no request is being served: to a later reading of the
\* clock on the same day, or to the next day
Tick ==
  /\ \A r \in Reqs : rq[r].pc # "fetching"
  /\ \/ /\ clock.tick < MaxTick
        /\ clock' = [clock EXCEPT !.tick = @ + 1]
     \/ /\ clock.day < Len(Days)
        /\ clock' = [day |-> clock.day + 1, tick |-> 0]
  /\ UNCHANGED <<catalog, cache, rq, ft, deck, ui>>

\* ------------------------------------------------------------------------
\* The page component (page.tsx)
\* ------------------------------------------------------------------------
\* the swipes and the rerolls of one session of the model
MaxSwipes == 2
MaxReroll == 2

\* slice(-200)
SliceCap == 200

\* Array.prototype.slice(-n)
LastN(seq, n) == SubSeq(seq, Max(1, Len(seq) - n + 1), Len(seq))

\* Set.prototype.add on a set kept in insertion order
AddToSet(seq, x) == IF x \in SeqToSet(seq) THEN seq ELSE Append(seq, x)

Strs(seq) == Mat([i \in 1..Len(seq) |-> JStr(seq[i])])

\* the request of getPicks and rerollPicks: the cookie of the browser and the
\* JSON body
requestOf(u, reroll) ==
  [cookie |-> u.cookie,
   body |-> JObj([q |-> JStr(u.query), reroll |-> JNum(reroll),
                  likes |-> JArr(Strs(LastN(u.likes, SliceCap))),
                  passes |-> JArr(Strs(LastN(u.passes, SliceCap)))])]

\* "Get picks", enabled unless loading
getPicks ==
  /\ ~ui.loading
  /\ ui' = [ui EXCEPT !.loading = TRUE, !.cards = <<>>, !.index = 0,
                      !.reroll = 0, !.outbox = requestOf(ui, 0)]
  /\ UNCHANGED <<clock, catalog, cache, rq, ft, deck>>

\* "Keep", shown with the current card
keep ==
  /\ ui.index < Len(ui.cards)
  /\ Len(ui.likes) + Len(ui.passes) < MaxSwipes
  /\ ui' = [ui EXCEPT !.likes = AddToSet(@, ui.cards[ui.index + 1].id),
                      !.index = Min(ui.index + 1, Len(ui.cards))]
  /\ UNCHANGED <<clock, catalog, cache, rq, ft, deck>>

\* "Pass", shown with the current card
pass ==
  /\ ui.index < Len(ui.cards)
  /\ Len(ui.likes) + Len(ui.passes) < MaxSwipes
  /\ ui' = [ui EXCEPT !.passes = AddToSet(@, ui.cards[ui.index + 1].id),
                      !.index = Min(ui.index + 1, Len(ui.cards))]
  /\ UNCHANGED <<clock, catalog, cache, rq, ft, deck>>

\* "Another 10", shown with the current card and enabled unless loading
rerollPicks ==
  /\ ui.index < Len(ui.cards)
  /\ ~ui.loading
  /\ ui.reroll < MaxReroll
  /\ ui' = [ui EXCEPT !.loading = TRUE, !.index = 0, !.reroll = @ + 1,
                      !.outbox = requestOf(ui, ui.reroll + 1)]
  /\ UNCHANGED <<clock, catalog, cache, rq, ft, deck>>

\* the request of the page reaches the handler
Arrive(r) ==
  /\ ui.outbox # NoRequest
  /\ Handle(r, ui.outbox)
  /\ ui' = [ui EXCEPT !.outbox = NoRequest]

\* the response reaches the page: setCards(data.cards), setLoading(false);
\* the browser keeps the cookie the response sets
Deliver(r) ==
  /\ rq[r].pc = "done"
  /\ ui.loading
  /\ ui.outbox = NoRequest
  /\ ui' = [ui EXCEPT !.cards = deck[r].cards, !.loading = FALSE,
                      !.cookie = IF deck[r].setCookie = JsNull THEN @
                                 ELSE deck[r].setCookie]
  /\ rq' = [rq EXCEPT ![r] = Idle]
  /\ ft' = [ft EXCEPT ![r] = [s \in Slots |-> NoFetch]]
  /\ deck' = [deck EXCEPT ![r] = NoDeck]
  /\ UNCHANGED <<clock, catalog, cache>>

\* ------------------------------------------------------------------------
\* Requests, initial states and specifications
\* ------------------------------------------------------------------------
\* the page component before its first request
IdleUi ==
  [query |-> "", loading |-> FALSE, cards |-> <<>>, index |-> 0, reroll |-> 0,
   likes |-> <<>>, passes |-> <<>>, cookie |-> "s1", outbox |-> NoRequest]

\* a well-formed body
Body(q, reroll, likes, passes) ==
  JObj([q |-> JStr(q), reroll |-> JNum(reroll),
        likes |-> JArr(Strs(likes)), passes |-> JArr(Strs(passes))])

\* the requests of the single-request specification: well-formed ones of
\* every kind of signature, and malformed ones
Requests ==
  { [cookie |-> "s1", body |-> Body("", 0, <<>>, <<>>)],
    [cookie |-> JsNull, body |-> Unparseable],
    [cookie |-> "s1",
     body |-> Body(" a scary movie tonight ", 1, <<"1", "5", "9">>, <<"3">>)],
    [cookie |-> "s2",
     body |-> JObj([q |-> JStr("Underrated HORROR gems"), reroll |-> JStr("2"),
                    likes |-> JArr(<<JStr("21"), JNum(7), JStr("22")>>),
                    passes |-> JStr("23")])],
    [cookie |-> "s1", body |-> JNullBody],
    [cookie |-> "s1", body |-> JArr(<<JStr("q")>>)],
    [cookie |-> "s1",
     body |-> Body("funny detective story", 2, <<"41", "42", "43", "44">>,
                   <<"45", "46", "47", "2">>)],
    [cookie |-> "",
     body |-> JObj([q |-> JStr("so bad it is weird"), reroll |-> JNum(-1)])],
    [cookie |-> "s1",
     body |-> JObj([q |-> JNum(5), likes |-> JNullBody,
                    passes |-> JArr(Strs(<<"61", "62", "63", "64", "65",
                                           "66", "67">>))])] }

\* the cache at the start: one slice of the underrated horror query is held
\* from an earlier request, in the revision the catalog had then
WarmCache ==
  cacheKey(fetchParams(makeSignature("underrated horror"), Days[1].year, 4))
    :> Desc(3 * PageSize + 1, PageSize, 1)

Init ==
  /\ clock = [day |-> 1, tick |-> 0]
  /\ catalog = FullCatalog
  /\ cache = WarmCache
  /\ rq = [r \in Reqs |-> Idle]
  /\ ft = [r \in Reqs |-> [s \in Slots |-> NoFetch]]
  /\ deck = [r \in Reqs |-> NoDeck]
  /\ ui = IdleUi

\* one request, from its arrival to its answer
Next ==
  \/ \E req \in Requests : Receive(1, req)
  \/ \E s \in Slots : CacheHit(1, s)
  \/ \E s \in Slots : CacheMiss(1, s)
  \/ \E s \in Slots : HttpOk(1, s)
  \/ \E s \in Slots : HttpFails(1, s)
  \/ \E s \in Slots : CacheSet(1, s)

Spec == Init /\ [][Next]_vars

\* The entries of the cache reach the end of their time to live (12 hours,
\* set by one request within the same instant) while no request is served
Expire ==
  /\ \A r \in Reqs : rq[r].pc # "fetching"
  /\ DOMAIN cache # {}
  /\ cache' = <<>>
  /\ UNCHANGED <<clock, catalog, rq, ft, deck, ui>>

\* Two runs of the handler for one session, the second after the first has
\* answered; time may pass and the cache may expire before and between them
ReplayRequests ==
  { [cookie |-> "s1", body |-> Body("", 0, <<>>, <<>>)],
    [cookie |-> "s1", body |-> Body("weird", 0, <<>>, <<>>)],
    [cookie |-> "s1", body |-> Body("", 1, <<"1">>, <<>>)] }

ReplayCatalog ==
  [s \in Slots |->
     CASE s = 1 -> {Desc(1, PageSize, 0)}
       [] s = 2 -> {Desc(1, 3, 1)}
       [] s = 3 -> {Desc(2 * PageSize + 1, 4, 0)}
       [] s = 4 -> {Desc(3 * PageSize + 1, 3, 0), Desc(1, 0, 0)}]

InitReplay ==
  /\ clock = [day |-> 1, tick |-> 0]
  /\ catalog = ReplayCatalog
  /\ cache = <<>>
  /\ rq = [r \in Reqs |-> Idle]
  /\ ft = [r \in Reqs |-> [s \in Slots |-> NoFetch]]
  /\ deck = [r \in Reqs |-> NoDeck]
  /\ ui = IdleUi

NextReplay ==
  \/ \E req \in ReplayRequests : Receive(1, req)
  \/ \E req \in ReplayRequests : rq[1].pc = "done" /\ Receive(2, req)
  \/ \E r \in Reqs, s \in Slots : CacheHit(r, s)
  \/ \E r \in Reqs, s \in Slots : CacheMiss(r, s)
  \/ \E r \in Reqs, s \in Slots : HttpOk(r, s)
  \/ \E r \in Reqs, s \in Slots : CacheSet(r, s)
  \/ Tick
  \/ Expire

SpecReplay == InitReplay /\ [][NextReplay]_vars

\* Two requests served at the same time with the same four keys: the first
\* two slices are in the cache, the last two are not, and the catalog may
\* answer the two requests differently
RaceRequests ==
  { [cookie |-> "s1", body |-> Body("", 0, <<>>, <<>>)],
    [cookie |-> "s2", body |-> Body("weird", 1, <<"2">>, <<"3">>)] }

RaceCatalog ==
  [s \in Slots |->
     CASE s = 1 -> {Desc(1, 6, 0)}
       [] s = 2 -> {Desc(PageSize + 1, 4, 0)}
       [] s = 3 -> {Desc(2 * PageSize + 1, 4, 0)}
       [] s = 4 -> {Desc(3 * PageSize + 1, 3, 0), Desc(3 * PageSize + 1, 3, 1)}]

RaceCache ==
  LET key(s) == cacheKey(fetchParams(makeSignature(""), Days[1].year, s))
  IN  (key(1) :> Desc(1, 6, 0)) @@ (key(2) :> Desc(PageSize + 1, 4, 0))

InitRace ==
  /\ clock = [day |-> 1, tick |-> 0]
  /\ catalog = RaceCatalog
  /\ cache = RaceCache
  /\ rq = [r \in Reqs |-> Idle]
  /\ ft = [r \in Reqs |-> [s \in Slots |-> NoFetch]]
  /\ deck = [r \in Reqs |-> NoDeck]
  /\ ui = IdleUi

NextRace ==
  \/ \E req \in RaceRequests : Receive(1, req)
  \/ \E req \in RaceRequests : rq[1].pc # "idle" /\ Receive(2, req)
  \/ \E r \in Reqs, s \in Slots : CacheHit(r, s)
  \/ \E r \in Reqs, s \in Slots : CacheMiss(r, s)
  \/ \E r \in Reqs, s \in Slots : HttpOk(r, s)
  \/ \E r \in Reqs, s \in Slots : HttpFails(r, s)
  \/ \E r \in Reqs, s \in Slots : CacheSet(r, s)

SpecRace == InitRace /\ [][NextRace]_vars

\* The page component and the handler behind it: every slice of the empty
\* query is in the cache
ClientCache ==
  LET key(s) == cacheKey(fetchParams(makeSignature(""), Days[1].year, s))
  IN  (key(1) :> Desc(1, PageSize, 0)) @@ (key(2) :> Desc(1, 0, 0))
        @@ (key(3) :> Desc(1, 0, 0)) @@ (key(4) :> Desc(1, 0, 0))

InitClient ==
  /\ clock = [day |-> 1, tick |-> 0]
  /\ catalog = FullCatalog
  /\ cache = ClientCache
  /\ rq = [r \in Reqs |-> Idle]
  /\ ft = [r \in Reqs |-> [s \in Slots |-> NoFetch]]
  /\ deck = [r \in Reqs |-> NoDeck]
  /\ ui = IdleUi

NextClient ==
  \/ getPicks
  \/ keep
  \/ pass
  \/ rerollPicks
  \/ Arrive(1)
  \/ \E s \in Slots : CacheHit(1, s)
  \/ Deliver(1)

SpecClient == InitClient /\ [][NextClient]_vars

\* The texts typed into the query field: every word of the lexicon, and
\* texts that hold lexicon words in other cases and inside other words, that
\* hold several of them, none of them, or nearly one of them
Texts ==
  UNION {Lexicon[f] : f \in DOMAIN Lexicon}
    \cup {"", " ", "HORROR", "preHORRORpost", "HoRrOr night", "horro r",
          "orror", "Horror Comedy", "The Casebook", "Gemini", "placid lake",
          "So Bad it is Weird", "mind  bending", "SLICE OF LIFE",
          "scary funny anime mystery acid gem trash", "a quiet drama",
          "under the rada", "Guilty  pleasure", "laughter", "DEMONS"}

\* onChange of the query field
setQuery(text) ==
  /\ ui' = [ui EXCEPT !.query = text]
  /\ UNCHANGED <<clock, catalog, cache, rq, ft, deck>>

\* the query typed, sent by "Get picks" and interpreted by the handler
NextSignature ==
  \/ \E text \in Texts : setQuery(text)
  \/ getPicks
  \/ Arrive(1)

SpecSignature == InitClient /\ [][NextSignature]_vars

\* ------------------------------------------------------------------------
\* Properties
\* ------------------------------------------------------------------------
Answered(r) == deck[r] # NoDeck

\* the ids, as strings, of the movies of the slice a call returned
SliceIds(r, s) ==
  {NumberToString(PageOf(ft[r][s].res)[i].id) :
     i \in 1..Len(PageOf(ft[r][s].res))}

SeenOf(r) == SeqToSet(rq[r].likes) \cup SeqToSet(rq[r].passes)

CardIds(r) == {deck[r].cards[i].id : i \in 1..Len(deck[r].cards)}

\* the two runs have answered from the same session, calendar day, reroll
\* index, slice results and feedback lists
SameReplayInputs ==
  /\ rq[1].pc = "done" /\ rq[2].pc = "done"
  /\ rq[1].sessionId = rq[2].sessionId
  /\ deck[1].at.day = deck[2].at.day
  /\ rq[1].reroll = rq[2].reroll
  /\ \A s \in Slots : ft[1][s].res = ft[2][s].res
  /\ rq[1].likes = rq[2].likes
  /\ rq[1].passes = rq[2].passes

C2_NoRepeatWithinRequest ==
  \A r \in Reqs : Answered(r) => CardIds(r) \cap SeenOf(r) = {}

\* an answer after a reverted genre filter and a top-up, to a request whose
\* kept and passed ids are among the movies of the slices
C2_Witness ==
  /\ Answered(1)
  /\ isSingleGenreIntent(rq[1].sig)
  /\ deck[1].nGenre < 25
  /\ deck[1].nPicked0 < Len(deck[1].cards)
  /\ \E s \in Slots : SeenOf(1) \cap SliceIds(1, s) # {}

\* C3: the deck has min(10, n) cards, n the number of candidates after the
\* hygiene filters and the genre filter with its revert; never more than 10;
\* 7 cards from 7 candidates; fewer than 10 only when fewer than 10 movies of
\* the slice union pass the hygiene filters.
C3_DeckSize ==
  \A r \in Reqs : Answered(r) =>
    /\ Len(deck[r].cards) = Min(10, deck[r].nFiltered)
    /\ Len(deck[r].cards) <= 10
    /\ (deck[r].nFiltered = 7 => Len(deck[r].cards) = 7)
    /\ (Len(deck[r].cards) < 10 => deck[r].nCandidates < 10)

\* a pool of exactly 7 candidates, answered with 7 cards
C3_Witness ==
  /\ Answered(1)
  /\ deck[1].nFiltered = 7
  /\ deck[1].nPicked0 = 6
  /\ Len(deck[1].cards) = 7

\* C4: the ids of the cards of an answer are pairwise distinct.
C4_NoDuplicates ==
  \A r \in Reqs : Answered(r) =>
    \A i, j \in 1..Len(deck[r].cards) :
      i # j => deck[r].cards[i].id # deck[r].cards[j].id

\* an id returned by two slices, and a deck of 10 that needed the top-up
C4_Witness ==
  /\ Answered(1)
  /\ \E s, t \in Slots : s # t /\ SliceIds(1, s) \cap SliceIds(1, t) # {}
  /\ deck[1].nPicked0 < 10
  /\ Len(deck[1].cards) = 10

\* C5: every card has a poster reference; its movie has at least 200 votes
\* when the underrated flag is false, and at least 50 votes and a popularity
\* of at most 60 when it is true.
C5_FilterCorrectness ==
  \A r \in Reqs : Answered(r) =>
    \A i \in 1..Len(deck[r].cards) :
      /\ deck[r].cards[i].id = NumberToString(deck[r].picked[i].id)
      /\ deck[r].cards[i].posterPath \notin {JsNull, ""}
      /\ "vote_count" \in DOMAIN deck[r].picked[i]
      /\ ~rq[r].sig.underrated => deck[r].picked[i].vote_count >= 200
      /\ rq[r].sig.underrated =>
           /\ deck[r].picked[i].vote_count >= 50
           /\ deck[r].picked[i].popularity <= 60

\* an underrated deck holding a movie of fewer than 200 votes, from slices
\* that hold a movie with a poster and votes but a popularity above 60
C5_Witness ==
  /\ Answered(1)
  /\ rq[1].sig.underrated
  /\ \E i \in 1..Len(deck[1].picked) : deck[1].picked[i].vote_count < 200
  /\ \E s \in Slots : \E i \in 1..Len(PageOf(ft[1][s].res)) :
       /\ PageOf(ft[1][s].res)[i].popularity > 60
       /\ Truthy(PageOf(ft[1][s].res)[i].poster_path)
       /\ FieldOr(PageOf(ft[1][s].res)[i], "vote_count", 0) >= 50

IntentFlags == {"anime", "comedy", "horror", "mystery"}

\* the genre tag of the one intent flag that is set
IntentGenre(sig) ==
  LET f == CHOOSE x \in IntentFlags : sig[x]
  IN  IF f = "anime" THEN 16 ELSE IF f = "comedy" THEN 35
      ELSE IF f = "horror" THEN 27 ELSE 9648

SingleIntent(sig) ==
  /\ Cardinality({x \in IntentFlags : sig[x]}) = 1
  /\ ~sig.underrated
  /\ ~sig.badMovie

\* C6: under exactly one of anime, comedy, horror, mystery, without
\* underrated and badMovie, and with at least 25 hygiene-passing candidates
\* of the matching genre tag, every card's movie carries that tag.
C6_SingleGenreIntent ==
  \A r \in Reqs :
    (Answered(r) /\ SingleIntent(rq[r].sig) /\ deck[r].nGenre >= 25) =>
      \A i \in 1..Len(deck[r].picked) :
        IntentGenre(rq[r].sig) \in SeqToSet(GenresOf(deck[r].picked[i]))

\* the scary query answered from a pool in which 25 or more, but not all,
\* candidates are horror-tagged
C6_Witness ==
  /\ Answered(1)
  /\ rq[1].q = "a scary movie tonight"
  /\ deck[1].nGenre >= 25
  /\ deck[1].nGenre < deck[1].nCandidates
  /\ Len(deck[1].cards) = 10

\* the sum over the tags genres[1..k] of 2 * likes - passes, in thousandths
RECURSIVE ShapingUpTo(_, _, _, _)
ShapingUpTo(genres, likeCounts, passCounts, k) ==
  IF k = 0 THEN 0
  ELSE ShapingUpTo(genres, likeCounts, passCounts, k - 1)
       + 2000 * GetOr0(likeCounts, genres[k])
       - 1000 * GetOr0(passCounts, genres[k])

Without(map, g) == [h \in DOMAIN map \ {g} |-> map[h]]

\* C7: with the weight maps of the request, the score of a movie exceeds its
\* score under empty maps by the sum over its genre tags of
\* 2 * likeCount - passCount, and a tag with 3 keeps and no pass accounts for
\* exactly 6 of it.
C7_PreferenceShaping ==
  \A r \in Reqs : Answered(r) =>
    \A i \in 1..Len(deck[r].picked) :
      /\ scoreMovie(deck[r].picked[i], rq[r].sig,
                    deck[r].likeCounts, deck[r].passCounts)
           - scoreMovie(deck[r].picked[i], rq[r].sig, <<>>, <<>>)
         = ShapingUpTo(GenresOf(deck[r].picked[i]), deck[r].likeCounts,
                       deck[r].passCounts, Len(GenresOf(deck[r].picked[i])))
      /\ \A g \in SeqToSet(GenresOf(deck[r].picked[i])) :
           (GetOr0(deck[r].likeCounts, g) = 3
              /\ GetOr0(deck[r].passCounts, g) = 0) =>
             scoreMovie(deck[r].picked[i], rq[r].sig,
                        deck[r].likeCounts, deck[r].passCounts)
               - scoreMovie(deck[r].picked[i], rq[r].sig,
                            Without(deck[r].likeCounts, g), deck[r].passCounts)
             = 6000

\* a card tagged with a genre of 3 keeps and no pass, beside a genre that
\* has a pass
C7_Witness ==
  /\ Answered(1)
  /\ \E i \in 1..Len(deck[1].picked) :
       \E g \in SeqToSet(GenresOf(deck[1].picked[i])) :
         /\ GetOr0(deck[1].likeCounts, g) = 3
         /\ GetOr0(deck[1].passCounts, g) = 0
  /\ \E g \in DOMAIN deck[1].passCounts : deck[1].passCounts[g] > 0

\* C8: a deck exists only when all four fetches have completed with a
\* result, and a request of which a fetch has failed has failed and has no
\* deck.
C8_AllOrNothing ==
  \A r \in Reqs :
    /\ Answered(r) =>
         /\ \A s \in Slots : ft[r][s].st = "done"
         /\ rq[r].pc = "done"
    /\ (\E s \in Slots : ft[r][s].st = "failed") =>
         /\ rq[r].pc = "failed"
         /\ ~Answered(r)
    /\ rq[r].pc = "done" => Answered(r)

\* one fetch has failed after the three others have completed
C8_Witness ==
  /\ rq[1].pc = "failed"
  /\ ~Answered(1)
  /\ Cardinality({s \in Slots : ft[1][s].st = "done"}) = 3
  /\ Cardinality({s \in Slots : ft[1][s].st = "failed"}) = 1

\* the field of the raw body is present with the JSON kind given
HasKind(raw, key, kind) ==
  /\ raw.k = "object"
  /\ key \in DOMAIN raw.v
  /\ raw.v[key].k = kind

\* C9: a body that is unparseable or not an object, or a q, reroll, likes,
\* passes field that is missing or of the wrong type, gives the defaults
\* empty query, reroll 0, empty likes and passes; a request fails only when
\* a fetch has failed, and is answered once all four have completed.
C9_MalformedInputDefaults ==
  \A r \in Reqs : rq[r].pc # "idle" =>
    /\ ~HasKind(rq[r].body, "q", "string") => rq[r].q = ""
    /\ ~HasKind(rq[r].body, "reroll", "number") => rq[r].reroll = 0
    /\ ~HasKind(rq[r].body, "likes", "array") => rq[r].likes = <<>>
    /\ ~HasKind(rq[r].body, "passes", "array") => rq[r].passes = <<>>
    /\ rq[r].pc = "failed" => \E s \in Slots : ft[r][s].st = "failed"
    /\ (\A s \in Slots : ft[r][s].st = "done") => Answered(r)

\* a body with a string for reroll, a number among the likes and a string
\* for passes, answered with cards and the defaults
C9_Witness ==
  /\ Answered(1)
  /\ HasKind(rq[1].body, "reroll", "string")
  /\ HasKind(rq[1].body, "passes", "string")
  /\ rq[1].reroll = 0
  /\ rq[1].passes = <<>>
  /\ Len(rq[1].likes) = 2
  /\ Len(deck[1].cards) > 0

\* C10: a deck that arrives at the page holds no card the user has kept or
\* passed by then.
C10_NoRepeatAcrossSwipes ==
  [][(ui.loading /\ ~ui'.loading) =>
       \A i \in 1..Len(ui'.cards) :
         ui'.cards[i].id \notin SeqToSet(ui'.likes) \cup SeqToSet(ui'.passes)]_vars

\* the requests whose call for slot s has returned
Returned(s) == {r \in Reqs : ft[r][s].st = "done"}

\* C11: under every interleaving of the cache reads, fetches and cache writes
\* of two requests for the same keys, a call returns a page the candidate
\* source answers for its key, and once a call for a key has returned the
\* cache holds for the key one page, which is the page a returned call for
\* the key holds: what that request alone would have written or read.
C11_CacheRaceHarmless ==
  \A s \in Slots :
    /\ \A r \in Returned(s) : ft[r][s].res \in catalog[s]
    /\ \A r \in Returned(s) :
         /\ ft[r][s].key \in DOMAIN cache
         /\ cache[ft[r][s].key] \in
              {ft[q][s].res : q \in {x \in Returned(s) :
                                       ft[x][s].key = ft[r][s].key}}

\* both requests have missed the same key, have been answered differently
\* by the catalog, have both written and have both been answered
C11_Witness ==
  /\ Answered(1) /\ Answered(2)
  /\ ft[1][4].key = ft[2][4].key
  /\ ft[1][4].res # ft[2][4].res
  /\ cache[ft[1][4].key] \in {ft[1][4].res, ft[2][4].res}

Letters == 1..26

UpperCaseLetters == "ABCDEFGHIJKLMNOPQRSTUVWXYZ"

LowerCaseLetters == "abcdefghijklmnopqrstuvwxyz"

\* character c of a text is character d of a lexicon word, up to its case
MatchesChar(c, d) ==
  \/ c = d
  \/ \E n \in Letters : /\ SubSeq(UpperCaseLetters, n, n) = c
                        /\ SubSeq(LowerCaseLetters, n, n) = d

\* word w occurs in the text at some offset, whatever the case of the text
OccursIn(w, text) ==
  \E off \in 0..(Len(text) - Len(w)) :
    \A k \in 1..Len(w) :
      MatchesChar(SubSeq(text, off + k, off + k), SubSeq(w, k, k))

\* the lexicon of the signature, per flag
FlagWords ==
  [anime      |-> {"anime", "shonen", "isekai", "slice of life"},
   comedy     |-> {"comedy", "funny", "humour", "humor", "laugh", "satire"},
   horror     |-> {"horror", "scary", "slasher", "haunting", "ghost", "demon"},
   mystery    |-> {"mystery", "detective", "whodunit", "investigation", "case"},
   trippy     |-> {"trippy", "psychedelic", "surreal", "mind-bending",
                   "mind bending", "weird", "acid"},
   underrated |-> {"underrated", "hidden gem", "hidden gems", "gem", "gems",
                   "under the radar"},
   badMovie   |-> {"bad movie", "so bad", "trash", "terrible", "awful",
                   "guilty pleasure"}]

\* the query text of the body of request r
TextOf(r) == rq[r].body.v.q.v

\* C12: for every text the signature has a truth value for each of the seven
\* flags, a flag is true exactly when the text holds, in whatever case and
\* context, a word of the flag's lexicon, and the empty text sets no flag.
C12_SignatureCorrectness ==
  \A r \in Reqs : rq[r].pc # "idle" =>
    /\ DOMAIN rq[r].sig = DOMAIN FlagWords
    /\ \A f \in DOMAIN FlagWords :
         /\ rq[r].sig[f] \in BOOLEAN
         /\ rq[r].sig[f] <=> \E w \in FlagWords[f] : OccursIn(w, TextOf(r))
    /\ OccursIn("horror", TextOf(r)) => rq[r].sig.horror
    /\ TextOf(r) = "" => \A f \in DOMAIN FlagWords : ~rq[r].sig[f]

\* a text with the word in capitals inside another word sets horror alone
C12_Witness ==
  /\ rq[1].pc # "idle"
  /\ TextOf(1) = "preHORRORpost"
  /\ rq[1].sig.horror
  /\ \A f \in DOMAIN FlagWords \ {"horror"} : ~rq[1].sig[f]

\* the movies of the slice union of request r: one per id
UnionOf(r) ==
  SeqToSet(byIdValues(Concat(<<PageOf(ft[r][1].res), PageOf(ft[r][2].res),
                               PageOf(ft[r][3].res), PageOf(ft[r][4].res)>>)))

\* the number of movies of the slice union with an id of idSet and tag g
TaggedIn(r, idSet, g) ==
  Cardinality({m \in UnionOf(r) :
                 /\ NumberToString(m.id) \in idSet
                 /\ g \in SeqToSet(GenresOf(m))})

\* C13: for every genre g the like count of g is the number of movies of
\* the slice union that are kept and tagged g, and the pass count of g the
\* number of those that are passed and tagged g, each movie counted once
\* also when several slices return its id.
C13_GenreWeightCounts ==
  \A r \in Reqs : Answered(r) =>
    \A g \in {GENRE[n] : n \in DOMAIN GENRE} :
      /\ GetOr0(deck[r].likeCounts, g)
           = TaggedIn(r, SeqToSet(rq[r].likes), g)
      /\ GetOr0(deck[r].passCounts, g)
           = TaggedIn(r, SeqToSet(rq[r].passes), g)

\* the rank position, from 0, of the movie of card i of the deck of r
RankOf(r, i) ==
  (CHOOSE p \in 1..Len(deck[r].ranked) :
     deck[r].ranked[p] = deck[r].picked[i].id) - 1

TopShuffle(r) ==
  shuffleInPlace(Slice(deck[r].ranked, 0, 60),
                 hashStringToSeed(rq[r].sessionId \o ":" \o deck[r].day \o ":"
                                    \o NumberToString(rq[r].reroll)))

MidShuffleAfter(r, top) == shuffleInPlace(Slice(deck[r].ranked, 60, 220), top.seed)

BucketPicks(top, mid) == Slice(top.arr, 0, 6) \o Slice(mid.arr, 0, 4)

ShuffleOrderOf(r, top) ==
  /\ deck[r].seed = hashStringToSeed(rq[r].sessionId \o ":" \o deck[r].day
                                       \o ":" \o NumberToString(rq[r].reroll))
  /\ deck[r].topDraws = Max(Min(60, deck[r].nFiltered) - 1, 0)
  /\ deck[r].midDraws = Max(Min(220, deck[r].nFiltered) - 60 - 1, 0)
  /\ top.draws = deck[r].topDraws
  /\ SubSeq(IdsOf(deck[r].picked), 1, deck[r].nPicked0)
       = BucketPicks(top, MidShuffleAfter(r, top))

\* C15: in every request the generator is seeded from
\* sessionId:day:reroll, the top bucket of length k is shuffled first with
\* k-1 draws (none when it is empty), the mid bucket is shuffled with the
\* generator state those draws left, and the bucket picks are the outcome
\* of these two shuffles alone.
C15_ShuffleOrder ==
  \A r \in Reqs : Answered(r) => ShuffleOrderOf(r, TopShuffle(r))

\* a deck whose two buckets both had something to shuffle, and whose mid
\* bucket would have come out otherwise from a generator seeded anew
C15_Witness ==
  /\ Answered(1)
  /\ deck[1].topDraws = 59
  /\ deck[1].midDraws >= 3
  /\ shuffleInPlace(Slice(deck[1].ranked, 60, 220), deck[1].seed).arr
       # MidShuffleAfter(1, TopShuffle(1)).arr

\* the movies of the slice union that pass the hygiene filters and are
\* neither kept nor passed
HygieneEligible(r) ==
  {m \in UnionOf(r) :
     /\ FieldOr(m, "poster_path", JsNull) \notin {JsNull, ""}
     /\ FieldOr(m, "vote_count", 0) >= (IF rq[r].sig.underrated THEN 50 ELSE 200)
     /\ rq[r].sig.underrated => FieldOr(m, "popularity", 0) <= 60
     /\ NumberToString(m.id) \notin SeenOf(r)}

\* the deck of r is ranked from all of the hygiene-eligible movies
RankedFromAllEligible(r) ==
  /\ SeqToSet(deck[r].ranked) = {m.id : m \in HygieneEligible(r)}
  /\ Len(deck[r].ranked) = Cardinality(HygieneEligible(r))
  /\ CardIds(r) \cap SeenOf(r) = {}

\* C16: under a single-genre intent with fewer than 25 hygiene-eligible
\* movies of the matching tag the deck is ranked from all hygiene-eligible
\* movies, none of them kept or passed; and so it is under every intent that
\* is not a single-genre intent.
C16_GenreFilterRevert ==
  \A r \in Reqs : Answered(r) =>
    /\ ( /\ SingleIntent(rq[r].sig)
         /\ Cardinality({m \in HygieneEligible(r) :
                           IntentGenre(rq[r].sig) \in SeqToSet(GenresOf(m))}) < 25 )
         => RankedFromAllEligible(r)
    /\ ~SingleIntent(rq[r].sig) => RankedFromAllEligible(r)

\* the scary query answered from a pool with some, but fewer than 25,
\* horror-tagged candidates, by a deck holding a movie without the horror tag
\* while a kept movie was among the slices
C16_Witness ==
  /\ Answered(1)
  /\ rq[1].q = "a scary movie tonight"
  /\ deck[1].nGenre \in 1..24
  /\ \E i \in 1..Len(deck[1].picked) : 27 \notin SeqToSet(GenresOf(deck[1].picked[i]))
  /\ \E s \in Slots : SliceIds(1, s) \cap SeenOf(1) # {}

====
